---------------------------- MODULE Spec2Model ----------------------------
(***************************************************************************)
(* The vote / score / post / membership store of TUNE-IN, as declared by   *)
(* the migration 20260220034650 (tables, constraints, row-level-security   *)
(* policies and the on_vote_change trigger).                               *)
(*                                                                         *)
(* Every request is one statement in one transaction of a read-committed   *)
(* store.  A transaction's writes are private until it commits; the        *)
(* policy functions (STABLE) read the committed rows of the statement's    *)
(* snapshot; a unique index entry and a row lock are held from the write   *)
(* to the end of the transaction, and a second writer of the same key or   *)
(* row waits for the holder to end.                                        *)
(***************************************************************************)
EXTENDS Integers, Sequences, FiniteSets, Bags, TLC

(* ------------------------------ universes ------------------------------ *)

\* auth.users: the identities the authentication service hands out.
Users == {"u1", "u2"}

\* public.clubs: seeded reference data, never written by a client.
Clubs == {"tech"}

\* At most MaxPosts rows are inserted in public.posts; their ids are 1, 2, ..
MaxPosts == 1

\* At most MaxChecks availability requests of one form are in flight.
MaxChecks == 2

\* At most MaxCalls calls of handleVote stand at an await, and a vote button is
\* clicked only while every score shown is within -MaxShown..MaxShown.
MaxCalls == 2

MaxShown == 2

\* The post ids a request may name (one may name a post that does not exist).
PostIds == 1..2

\* vote_value as a request may carry it; the column's CHECK admits 1 and -1.
VoteInputs == {1, -1, 0}

\* The score column as a posts insert or update may carry it: omitted, <<>>
\* (the column's DEFAULT applies), or given explicitly, <<n>>.
ScoreInputs == {<<>>, <<7>>}

\* The connections of the store: each runs one statement at a time.
Connections == {"c1", "c2"}

\* Text is a sequence of characters.  The usernames a form or a statement may
\* carry: two that the form accepts, one too short, one with a character
\* outside [a-zA-Z0-9_].
Usernames ==
    {<<"a", "n", "n">>, <<"B", "o", "b">>, <<"a", "n">>, <<"a", "!", "n">>}

NoUser == "-"

NoClub == "-"

(* ------------------------------- errors -------------------------------- *)

\* A statement's outcome: not ended yet, "ok", or the class of the error that
\* ended it.
Pending == "pending"

OK == "ok"

\* new row violates row-level security policy (a WITH CHECK policy failed)
AuthorizationError == "42501"

\* duplicate key value violates unique constraint
ConflictError == "23505"

\* new row violates check constraint
ValidationError == "23514"

\* insert violates foreign key constraint
NotFoundError == "23503"

\* the transaction was aborted before it committed (crash, lost connection)
Aborted == "aborted"

(* -------------------------------- state -------------------------------- *)

VARIABLES
    club_memberships,   \* bag of rows [user_id, club_id]
    posts,              \* sequence of rows [club_id, user_id, score]; id = index
    post_votes,         \* bag of rows [user_id, post_id, vote_value]
    txns,               \* bag of the transactions in progress
    reply,              \* the statement that just ended and its outcome
    profiles,           \* bag of rows [user_id, username]
    onboarding,         \* the state of each user's Onboarding component
    mainApp,            \* the state of one MainApp component
    now,                \* Date.now(): the clock of MainApp's browser
    route               \* what useAuth() gives a ProtectedRoute, and its render

vars ==
    <<club_memberships, posts, post_votes, txns, reply, profiles, onboarding,
      mainApp, now, route>>

\* MainApp, its clock and the route that guards it.
app == <<mainApp, now, route>>

\* What the statements on votes, posts and memberships leave alone.
rest == <<profiles, onboarding, app>>

store == <<club_memberships, posts, post_votes>>

\* A statement: what was asked (op, actor and the row's columns) and by which
\* caller (the component that awaits it, "api" for a bare request), how far it
\* got (pc), what it holds (score: the score it will write; rows: the rows it
\* deleted) and how it ended (outcome, Pending until it ends).
NoReply ==
    [pc |-> "none", op |-> "none", actor |-> NoUser, user_id |-> NoUser,
     post_id |-> 0, club_id |-> NoClub, vote_value |-> 0, score |-> 0,
     username |-> <<>>, caller |-> "api", rows |-> EmptyBag, outcome |-> Pending]

Request(op, actor, user_id, post_id, club_id, vote_value) ==
    [NoReply EXCEPT !.pc = "new", !.op = op, !.actor = actor,
                    !.user_id = user_id, !.post_id = post_id,
                    !.club_id = club_id, !.vote_value = vote_value]

\* The statement req ended with this outcome, at the stage req.pc.
Reply(req, outcome) == [req EXCEPT !.outcome = outcome]

\* Onboarding as it mounts (its useState defaults), for each user: the form's
\* step, username, usernameError, checkingUsername, selectedHobbies and
\* submitting; checks, the bag of the usernames whose availability request is
\* in flight; finish, the await handleFinish stands at ("idle" outside it);
\* toast, the last toast shown; path, the route ("/onboarding" until
\* navigate("/app")); refreshed, refreshProfile() was called.
OnboardingMounted ==
    [step |-> 0, username |-> <<>>, usernameError |-> "",
     checkingUsername |-> FALSE, selectedHobbies |-> {}, submitting |-> FALSE,
     checks |-> EmptyBag, finish |-> "idle", toast |-> "", refreshed |-> FALSE,
     path |-> "/onboarding"]

\* Mutation: the profile is looked at before the user.
ProtectedRoute_ProfileFirst(user, profile, loading) ==
    IF loading THEN [element |-> "spinner", to |-> ""]
    ELSE IF profile = <<>> THEN [element |-> "Navigate", to |-> "/onboarding"]
    ELSE IF user = <<>> THEN [element |-> "Navigate", to |-> "/login"]
    ELSE [element |-> "children", to |-> ""]

\* ProtectedRoute: the element it returns for the user, profile (<<>> for null,
\* else <<value>>) and loading that useAuth() gives it.
ProtectedRoute(user, profile, loading) ==
    IF loading THEN [element |-> "spinner", to |-> ""]
    ELSE IF user = <<>> THEN [element |-> "Navigate", to |-> "/login"]
    ELSE IF profile = <<>> THEN [element |-> "Navigate", to |-> "/onboarding"]
    ELSE [element |-> "children", to |-> ""]

\* A ProtectedRoute rendered with what useAuth() gives.
RouteRendered(user, profile, loading) ==
    [user |-> user, profile |-> profile, loading |-> loading,
     rendered |-> ProtectedRoute(user, profile, loading)]

\* The route while the session is being read: nobody yet, loading.
RouteLoading == RouteRendered(<<>>, <<>>, TRUE)

\* A number of milliseconds, d * 24 * 60 * 60 * 1000 + ms with 0 <= ms < DayMs,
\* or Infinity.
DayMs == 24 * 60 * 60 * 1000

Ms(d, ms) == [inf |-> FALSE, d |-> d, ms |-> ms]

Infinity == [inf |-> TRUE, d |-> 0, ms |-> 0]

\* The clock when MainApp mounts, and a millisecond later.
Clock == <<Ms(400, 0), Ms(400, 1)>>

\* MainApp as it mounts (its useState defaults), with feed, the value of the
\* memo filteredPosts, and calls, the bag of the handleVote calls that stand at
\* an await.
MainAppMounted ==
    [posts |-> <<>>, votes |-> <<>>, search |-> <<>>, sort |-> "new", feed |-> <<>>,
     calls |-> EmptyBag]

\* A reply is handed to its caller before the store takes its next step.
NoPendingReply == reply = NoReply

\* A connection is free for a new statement.
ConnFree == BagCardinality(txns) < Cardinality(Connections)

InProgress == BagToSet(txns)

\* The transaction x starts, moves on as y, or ends.
Started(x) == txns (+) SetToBag({x})

Moved(x, y) == (txns (-) SetToBag({x})) (+) SetToBag({y})

Ended(x) == txns (-) SetToBag({x})

(* ------------------------------ operators ------------------------------ *)

RECURSIVE SumOver(_, _)
\* The sum of f[x] over the finite set S.
SumOver(S, f) ==
    IF S = {} THEN 0
    ELSE LET x == CHOOSE y \in S : TRUE
         IN f[x] + SumOver(S \ {x}, f)

\* sum(vote_value) over the rows of bag B that belong to post p.
VoteSum(B, p) ==
    LET rs == {r \in BagToSet(B) : r.post_id = p}
    IN SumOver(rs, [r \in rs |-> r.vote_value * CopiesIn(r, B)])

\* The rows of bag B for the pair (u, p), as a bag.
RowsOf(B, u, p) ==
    LET rs == {r \in BagToSet(B) : r.user_id = u /\ r.post_id = p}
    IN [r \in rs |-> CopiesIn(r, B)]

PostExists(p) == p \in 1..Len(posts)

\* public.is_club_member(_user_id, _club_id)
is_club_member(_user_id, _club_id) ==
    \E m \in BagToSet(club_memberships) :
        m.user_id = _user_id /\ m.club_id = _club_id

\* public.has_voted_on_post(_user_id, _post_id)
has_voted_on_post(_user_id, _post_id) ==
    \E v \in BagToSet(post_votes) :
        v.user_id = _user_id /\ v.post_id = _post_id

\* Mutation: the policy does not look for an existing vote.
MembersCanVote_NoVotedCheck(uid, row) == uid = row.user_id

\* Mutation: the policy admits members of the post's club only.
MembersCanVote_MembersOnly(uid, row) ==
    /\ uid = row.user_id
    /\ ~has_voted_on_post(uid, row.post_id)
    /\ PostExists(row.post_id)
    /\ is_club_member(uid, posts[row.post_id].club_id)

\* POLICY "Members can vote" ON post_votes FOR INSERT WITH CHECK
MembersCanVote(uid, row) ==
    uid = row.user_id /\ ~has_voted_on_post(uid, row.post_id)

\* Mutation: the policy lets anyone delete any vote, USING (true).
UsersCanRemoveOwnVote_Anyone(uid, row) == TRUE

\* POLICY "Users can remove own vote" ON post_votes FOR DELETE USING
UsersCanRemoveOwnVote(uid, row) == uid = row.user_id

\* Mutation: the policy does not ask for membership.
MembersCanCreatePosts_AnyUser(uid, row) == uid = row.user_id

\* POLICY "Members can create posts" ON posts FOR INSERT WITH CHECK
MembersCanCreatePosts(uid, row) ==
    uid = row.user_id /\ is_club_member(uid, row.club_id)

\* Mutation: the policy lets anyone insert any membership, WITH CHECK (true).
UsersCanJoinClubs_Anyone(uid, row) == TRUE

\* POLICY "Users can join clubs" ON club_memberships FOR INSERT WITH CHECK
UsersCanJoinClubs(uid, row) == uid = row.user_id

\* POLICY "Users can leave clubs" ON club_memberships FOR DELETE USING
UsersCanLeaveClubs(uid, row) == uid = row.user_id

\* Mutation: the column has no CHECK constraint.
VoteValueCheck_Any(row) == TRUE

\* vote_value INTEGER NOT NULL CHECK (vote_value IN (1, -1))
VoteValueCheck(row) == row.vote_value \in {1, -1}

\* score INTEGER NOT NULL DEFAULT 0
ScoreColumn(given) == IF given = <<>> THEN 0 ELSE given[1]

\* update_post_score(): the score the trigger's UPDATE writes, from the score
\* it reads under the row lock.
update_post_score(TG_OP, score, vote_value) ==
    IF TG_OP = "INSERT" THEN score + vote_value
    ELSE IF TG_OP = "DELETE" THEN score - vote_value
    ELSE score

(* -------------------------------- locks -------------------------------- *)

\* The transaction x holds the unique-index entry or the row lock of the vote
\* key (u, p): it inserted such a row, or it deleted one, and has not ended.
HoldsVoteKey(x, u, p) ==
    /\ x.pc \in {"vi_inserted", "vi_scored", "vd_deleted", "vd_scored"}
    /\ x.user_id = u
    /\ x.post_id = p

\* The transaction x holds the row lock of post p: its trigger updated the row.
HoldsPostLock(x, p) ==
    /\ x.pc \in {"vi_scored", "vd_scored"}
    /\ x.post_id = p

\* UNIQUE(user_id, post_id): a write of the key (u, p) waits while a
\* transaction in progress holds the key.
VoteKeyFree(u, p) == \A x \in InProgress : ~HoldsVoteKey(x, u, p)

\* Mutation: the score is written from a value read without the row lock
\* (read, then SET score = value).
PostLockFree_NoWait(p) == TRUE

\* The trigger's UPDATE of post p waits while a transaction in progress holds
\* the row.
PostLockFree(p) == \A x \in InProgress : ~HoldsPostLock(x, p)

(* ------------------------------- initial ------------------------------- *)

Init ==
    /\ club_memberships = EmptyBag
    /\ posts = <<>>
    /\ post_votes = EmptyBag
    /\ txns = EmptyBag
    /\ reply = NoReply
    /\ profiles = EmptyBag
    /\ onboarding = [u \in Users |-> OnboardingMounted]
    /\ mainApp = MainAppMounted
    /\ now = Clock[1]
    /\ route = RouteLoading

(* ----------------------- post_votes: INSERT ---------------------------- *)

\* Mutation: post_votes has no UNIQUE(user_id, post_id).
UniqueUserPost_Dropped(row) == TRUE

\* UNIQUE(user_id, post_id) against the committed rows.
UniqueUserPost(row) == RowsOf(post_votes, row.user_id, row.post_id) = EmptyBag

\* post_id REFERENCES public.posts(id)
PostForeignKey(row) == PostExists(row.post_id)

\* INSERT INTO post_votes (user_id, post_id, vote_value) by actor: the WITH CHECK
\* policy on the statement's snapshot, then the column's CHECK constraint.
VoteInsertBegin(actor, user_id, post_id, vote_value) ==
    LET req == Request("vote_insert", actor, user_id, post_id, NoClub, vote_value)
    IN /\ NoPendingReply
       /\ ConnFree
       /\ IF ~MembersCanVote(actor, req)
          THEN reply' = Reply(req, AuthorizationError) /\ UNCHANGED txns
          ELSE IF ~VoteValueCheck(req)
          THEN reply' = Reply(req, ValidationError) /\ UNCHANGED txns
          ELSE txns' = Started([req EXCEPT !.pc = "vi_checked"]) /\ UNCHANGED reply
       /\ UNCHANGED store

\* The row enters the heap and the unique index (waiting for a holder of the
\* same key to end), then the foreign key is checked.
VoteInsertRow(x) ==
    /\ NoPendingReply
    /\ x.pc = "vi_checked"
    /\ VoteKeyFree(x.user_id, x.post_id)
    /\ IF ~UniqueUserPost(x)
       THEN reply' = Reply(x, ConflictError) /\ txns' = Ended(x)
       ELSE IF ~PostForeignKey(x)
       THEN reply' = Reply(x, NotFoundError) /\ txns' = Ended(x)
       ELSE txns' = Moved(x, [x EXCEPT !.pc = "vi_inserted"]) /\ UNCHANGED reply
    /\ UNCHANGED store

\* on_vote_change AFTER INSERT: UPDATE posts SET score = score + NEW.vote_value.
\* The UPDATE locks the post's row and reads its latest committed score.
VoteInsertTrigger(x) ==
    /\ NoPendingReply
    /\ x.pc = "vi_inserted"
    /\ PostLockFree(x.post_id)
    /\ txns' = Moved(x, [x EXCEPT !.pc = "vi_scored",
                                  !.score = update_post_score("INSERT",
                                               posts[x.post_id].score,
                                               x.vote_value)])
    /\ UNCHANGED <<store, reply>>

\* Mutation: the score is not updated in the transaction of the insert.
VoteInsertCommit_RowOnly(x) ==
    /\ NoPendingReply
    /\ x.pc = "vi_scored"
    /\ post_votes' = post_votes (+) SetToBag({[user_id |-> x.user_id,
                                               post_id |-> x.post_id,
                                               vote_value |-> x.vote_value]})
    /\ txns' = Ended(x)
    /\ reply' = Reply(x, OK)
    /\ UNCHANGED <<club_memberships, posts>>

\* COMMIT: the inserted row and the updated score become visible together.
VoteInsertCommit(x) ==
    /\ NoPendingReply
    /\ x.pc = "vi_scored"
    /\ post_votes' = post_votes (+) SetToBag({[user_id |-> x.user_id,
                                               post_id |-> x.post_id,
                                               vote_value |-> x.vote_value]})
    /\ posts' = [posts EXCEPT ![x.post_id].score = x.score]
    /\ txns' = Ended(x)
    /\ reply' = Reply(x, OK)
    /\ UNCHANGED club_memberships

(* ----------------------- post_votes: DELETE ---------------------------- *)

\* Mutation: a delete that matches no row is answered with an error.
VoteDeleteBegin_ErrorIfMissing(actor, user_id, post_id) ==
    LET req == Request("vote_delete", actor, user_id, post_id, NoClub, 0)
        all == RowsOf(post_votes, user_id, post_id)
        seen == {r \in BagToSet(all) : UsersCanRemoveOwnVote(actor, r)}
        target == [r \in seen |-> CopiesIn(r, all)]
    IN /\ NoPendingReply
       /\ ConnFree
       /\ target = EmptyBag \/ VoteKeyFree(user_id, post_id)
       /\ IF target = EmptyBag
          THEN reply' = Reply(req, NotFoundError) /\ UNCHANGED txns
          ELSE /\ txns' = Started([req EXCEPT !.pc = "vd_deleted", !.rows = target])
               /\ UNCHANGED reply
       /\ UNCHANGED store

\* DELETE FROM post_votes WHERE user_id = .. AND post_id = .. by actor: the rows
\* the USING policy lets the actor see are locked and marked deleted (waiting
\* for a holder of the same rows to end); no row is not an error.
VoteDeleteBegin(actor, user_id, post_id) ==
    LET req == Request("vote_delete", actor, user_id, post_id, NoClub, 0)
        all == RowsOf(post_votes, user_id, post_id)
        seen == {r \in BagToSet(all) : UsersCanRemoveOwnVote(actor, r)}
        target == [r \in seen |-> CopiesIn(r, all)]
    IN /\ NoPendingReply
       /\ ConnFree
       /\ target = EmptyBag \/ VoteKeyFree(user_id, post_id)
       /\ IF target = EmptyBag
          THEN reply' = Reply(req, OK) /\ UNCHANGED txns
          ELSE /\ txns' = Started([req EXCEPT !.pc = "vd_deleted", !.rows = target])
               /\ UNCHANGED reply
       /\ UNCHANGED store

\* on_vote_change AFTER DELETE: UPDATE posts SET score = score - OLD.vote_value,
\* once for each deleted row.
VoteDeleteTrigger(x) ==
    /\ NoPendingReply
    /\ x.pc = "vd_deleted"
    /\ PostLockFree(x.post_id)
    /\ txns' = Moved(x, [x EXCEPT !.pc = "vd_scored",
                                  !.score = update_post_score("DELETE",
                                               posts[x.post_id].score,
                                               VoteSum(x.rows, x.post_id))])
    /\ UNCHANGED <<store, reply>>

\* COMMIT: the rows disappear and the updated score becomes visible together.
VoteDeleteCommit(x) ==
    /\ NoPendingReply
    /\ x.pc = "vd_scored"
    /\ post_votes' = post_votes (-) x.rows
    /\ posts' = [posts EXCEPT ![x.post_id].score = x.score]
    /\ txns' = Ended(x)
    /\ reply' = Reply(x, OK)
    /\ UNCHANGED club_memberships

(* ------------------------------- posts --------------------------------- *)

\* Post inserts in progress: each will take one of the MaxPosts ids.
PostInsertsInProgress ==
    BagCardinality([x \in {y \in InProgress : y.pc = "pi_checked"} |-> CopiesIn(x, txns)])

\* INSERT INTO posts (club_id, user_id, .., score?) by actor: the WITH CHECK
\* policy on the statement's snapshot.  No policy and no constraint reads score.
PostInsertBegin(actor, user_id, club_id, score) ==
    LET req == [Request("post_insert", actor, user_id, 0, club_id, 0)
                  EXCEPT !.score = ScoreColumn(score)]
    IN /\ NoPendingReply
       /\ ConnFree
       /\ MembersCanCreatePosts(actor, req) =>
             Len(posts) + PostInsertsInProgress < MaxPosts
       /\ IF ~MembersCanCreatePosts(actor, req)
          THEN reply' = Reply(req, AuthorizationError) /\ UNCHANGED txns
          ELSE txns' = Started([req EXCEPT !.pc = "pi_checked"]) /\ UNCHANGED reply
       /\ UNCHANGED store

\* COMMIT: the new post becomes visible.
PostInsertCommit(x) ==
    /\ NoPendingReply
    /\ x.pc = "pi_checked"
    /\ posts' = Append(posts, [club_id |-> x.club_id, user_id |-> x.user_id,
                               score |-> x.score])
    /\ txns' = Ended(x)
    /\ reply' = Reply([x EXCEPT !.post_id = Len(posts) + 1], OK)
    /\ UNCHANGED <<club_memberships, post_votes>>

\* Row level security is enabled on posts and no policy is FOR UPDATE (nor FOR
\* DELETE): the statement sees no row it may change.
PostsUpdatable(uid) == {}

\* UPDATE posts SET score = .. WHERE id = post_id by actor.
PostUpdate(actor, post_id, score) ==
    LET req == [Request("post_update", actor, NoUser, post_id, NoClub, 0)
                  EXCEPT !.score = score]
    IN /\ NoPendingReply
       /\ ConnFree
       /\ posts' = [p \in 1..Len(posts) |->
                      IF p = post_id /\ p \in PostsUpdatable(actor)
                      THEN [posts[p] EXCEPT !.score = score]
                      ELSE posts[p]]
       /\ reply' = Reply(req, OK)
       /\ UNCHANGED <<club_memberships, post_votes, txns>>

(* --------------------------- club_memberships -------------------------- *)

\* The rows of club_memberships for the pair (u, c), as a bag.
MembershipsOf(u, c) ==
    LET rs == {m \in BagToSet(club_memberships) : m.user_id = u /\ m.club_id = c}
    IN [m \in rs |-> CopiesIn(m, club_memberships)]

\* INSERT INTO club_memberships (user_id, club_id) by actor.
Join(actor, user_id, club_id) ==
    LET req == Request("join", actor, user_id, 0, club_id, 0)
        pass == UsersCanJoinClubs(actor, req)
        dup == MembershipsOf(user_id, club_id) # EmptyBag
    IN /\ NoPendingReply
       /\ ConnFree
       /\ club_memberships' =
            IF pass /\ ~dup
            THEN club_memberships (+) SetToBag({[user_id |-> user_id, club_id |-> club_id]})
            ELSE club_memberships
       /\ reply' = Reply(req, IF ~pass THEN AuthorizationError
                              ELSE IF dup THEN ConflictError ELSE OK)
       /\ UNCHANGED <<posts, post_votes, txns>>

\* DELETE FROM club_memberships WHERE user_id = .. AND club_id = .. by actor.
Leave(actor, user_id, club_id) ==
    LET req == Request("leave", actor, user_id, 0, club_id, 0)
        all == MembershipsOf(user_id, club_id)
        seen == {m \in BagToSet(all) : UsersCanLeaveClubs(actor, m)}
        target == [m \in seen |-> CopiesIn(m, all)]
    IN /\ NoPendingReply
       /\ ConnFree
       /\ club_memberships' = club_memberships (-) target
       /\ reply' = Reply(req, OK)
       /\ UNCHANGED <<posts, post_votes, txns>>

(* ------------------------------ profiles ------------------------------- *)

\* The profile rows of user u, and the profile rows with username n, as bags.
ProfilesOf(u) ==
    LET rs == {r \in BagToSet(profiles) : r.user_id = u}
    IN [r \in rs |-> CopiesIn(r, profiles)]

ProfilesNamed(n) ==
    LET rs == {r \in BagToSet(profiles) : r.username = n}
    IN [r \in rs |-> CopiesIn(r, profiles)]

\* POLICY "Users can insert own profile" ON profiles FOR INSERT WITH CHECK
UsersCanInsertOwnProfile(uid, row) == uid = row.user_id

\* POLICY "Users can update own profile" ON profiles FOR UPDATE USING
UsersCanUpdateOwnProfile(uid, row) == uid = row.user_id

\* user_id UUID NOT NULL UNIQUE, against the committed rows.
UniqueUserId(row) == ProfilesOf(row.user_id) = EmptyBag

\* Mutation: username is not UNIQUE.
UniqueUsername_Dropped(row) == TRUE

\* username TEXT NOT NULL UNIQUE, against the committed rows.
UniqueUsername(row) == ProfilesNamed(row.username) = EmptyBag

\* The transaction x holds the unique-index entry of the user_id u or of the
\* username n: it inserted such a profile and has not ended.
HoldsProfileKey(x, u, n) ==
    /\ x.pc = "pr_inserted"
    /\ x.user_id = u \/ x.username = n

\* A write of the keys u and n waits while a transaction in progress holds one.
ProfileKeysFree(u, n) == \A x \in InProgress : ~HoldsProfileKey(x, u, n)

\* INSERT INTO profiles (user_id, username, ..) by actor: the WITH CHECK policy.
ProfileInsertBegin(actor, user_id, username, caller) ==
    LET req == [Request("profile_insert", actor, user_id, 0, NoClub, 0)
                  EXCEPT !.username = username, !.caller = caller]
    IN /\ NoPendingReply
       /\ ConnFree
       /\ IF ~UsersCanInsertOwnProfile(actor, req)
          THEN reply' = Reply(req, AuthorizationError) /\ UNCHANGED txns
          ELSE txns' = Started([req EXCEPT !.pc = "pr_checked"]) /\ UNCHANGED reply
       /\ UNCHANGED <<store, profiles>>

\* The row enters the heap and the two unique indexes, waiting for a holder of
\* the same user_id or username to end.
ProfileInsertRow(x) ==
    /\ NoPendingReply
    /\ x.pc = "pr_checked"
    /\ ProfileKeysFree(x.user_id, x.username)
    /\ IF ~UniqueUserId(x) \/ ~UniqueUsername(x)
       THEN reply' = Reply(x, ConflictError) /\ txns' = Ended(x)
       ELSE txns' = Moved(x, [x EXCEPT !.pc = "pr_inserted"]) /\ UNCHANGED reply
    /\ UNCHANGED <<store, profiles>>

\* COMMIT: the new profile becomes visible.
ProfileInsertCommit(x) ==
    /\ NoPendingReply
    /\ x.pc = "pr_inserted"
    /\ profiles' = profiles (+) SetToBag({[user_id |-> x.user_id,
                                           username |-> x.username]})
    /\ txns' = Ended(x)
    /\ reply' = Reply(x, OK)
    /\ UNCHANGED store

\* UPDATE profiles SET username = .. WHERE user_id = .. by actor: the rows the
\* USING policy lets the actor see are rewritten (the policy is the new row's
\* check as well); the statement waits for a holder of the new username.
ProfileUpdate(actor, user_id, username) ==
    LET req == [Request("profile_update", actor, user_id, 0, NoClub, 0)
                  EXCEPT !.username = username]
        all == ProfilesOf(user_id)
        seen == {r \in BagToSet(all) : UsersCanUpdateOwnProfile(actor, r)}
        target == [r \in seen |-> CopiesIn(r, all)]
        renamed == [r \in {[user_id |-> t.user_id, username |-> username] : t \in seen}
                      |-> BagCardinality(target)]
        taken == ProfilesNamed(username) (-) target
    IN /\ NoPendingReply
       /\ ConnFree
       /\ target = EmptyBag \/ ProfileKeysFree(user_id, username)
       /\ IF target # EmptyBag /\ (taken # EmptyBag \/ BagCardinality(target) > 1)
          THEN reply' = Reply(req, ConflictError) /\ UNCHANGED profiles
          ELSE /\ reply' = Reply(req, OK)
               /\ profiles' = (profiles (-) target) (+) renamed
       /\ UNCHANGED <<store, txns>>

(* ------------------------- end of a transaction ------------------------ *)

\* ROLLBACK of a transaction in progress (a crash, a lost connection): its
\* writes are discarded and its locks released.
Abort(x) ==
    /\ NoPendingReply
    /\ txns' = Ended(x)
    /\ reply' = Reply(x, Aborted)
    /\ UNCHANGED store

\* The caller takes the reply.
Ack ==
    /\ reply # NoReply
    /\ reply' = NoReply
    /\ UNCHANGED <<store, txns>>

(* ------------------------------ Onboarding ----------------------------- *)

\* The characters of the classes a-z, A-Z and 0-9, in order.
LowerCase ==
    <<"a", "b", "c", "d", "e", "f", "g", "h", "i", "j", "k", "l", "m",
      "n", "o", "p", "q", "r", "s", "t", "u", "v", "w", "x", "y", "z">>

UpperCase ==
    <<"A", "B", "C", "D", "E", "F", "G", "H", "I", "J", "K", "L", "M",
      "N", "O", "P", "Q", "R", "S", "T", "U", "V", "W", "X", "Y", "Z">>

Digits == <<"0", "1", "2", "3", "4", "5", "6", "7", "8", "9">>

Range(f) == {f[i] : i \in DOMAIN f}

\* /^[a-zA-Z0-9_]+$/.test(value)
UsernamePattern(value) ==
    /\ Len(value) >= 1
    /\ \A i \in 1..Len(value) :
          value[i] \in Range(LowerCase) \cup Range(UpperCase) \cup Range(Digits) \cup {"_"}

\* HOBBIES: the ids the form offers; each is the slug of a seeded club.
HOBBIES == Clubs

\* checkUsername(value) up to its await: the state it sets, an availability
\* request sent or not.
checkUsername(o, value) ==
    IF Len(value) < 3
    THEN [o EXCEPT !.usernameError = "Username must be at least 3 characters"]
    ELSE IF ~UsernamePattern(value)
    THEN [o EXCEPT !.usernameError = "Only letters, numbers, and underscores"]
    ELSE [o EXCEPT !.checkingUsername = TRUE,
                   !.checks = @ (+) SetToBag({value})]

\* onChange of the username input: setUsername(v); setUsernameError("");
\* if (v.length >= 3) checkUsername(v).
OnChangeUsername(u, v) ==
    LET o == [onboarding[u] EXCEPT !.username = v, !.usernameError = ""]
    IN /\ onboarding[u].path = "/onboarding"
       /\ onboarding[u].step = 0
       /\ v # onboarding[u].username
       /\ BagCardinality(onboarding[u].checks) < MaxChecks
       /\ onboarding' = [onboarding EXCEPT ![u] =
                            IF Len(v) >= 3 THEN checkUsername(o, v) ELSE o]
       /\ UNCHANGED <<store, txns, reply, profiles>>

\* checkUsername(value) from its await on: the select of the profile with that
\* username returns its row, or no row (also when the request failed).
CheckUsernameReturns(u, value, failed) ==
    LET data == ~failed /\ ProfilesNamed(value) # EmptyBag
    IN /\ BagIn(value, onboarding[u].checks)
       /\ onboarding' = [onboarding EXCEPT
             ![u].checks = @ (-) SetToBag({value}),
             ![u].checkingUsername = FALSE,
             ![u].usernameError = IF data THEN "Username already taken" ELSE ""]
       /\ UNCHANGED <<store, txns, reply, profiles>>

\* canProceed()
canProceed(o) ==
    IF o.step = 0
    THEN Len(o.username) >= 3 /\ o.usernameError = "" /\ ~o.checkingUsername
    ELSE IF o.step = 3
    THEN Cardinality(o.selectedHobbies) >= 1
    ELSE TRUE

\* The button Continue / Finish is enabled.
ButtonEnabled(o) ==
    o.path = "/onboarding" /\ canProceed(o) /\ ~o.submitting

\* Continue: setStep(step + 1).
Continue(u) ==
    /\ ButtonEnabled(onboarding[u])
    /\ onboarding[u].step < 3
    /\ onboarding' = [onboarding EXCEPT ![u].step = @ + 1]
    /\ UNCHANGED <<store, txns, reply, profiles>>

\* Back: setStep(step - 1).
Back(u) ==
    /\ onboarding[u].path = "/onboarding"
    /\ onboarding[u].step > 0
    /\ onboarding' = [onboarding EXCEPT ![u].step = @ - 1]
    /\ UNCHANGED <<store, txns, reply, profiles>>

\* toggleHobby(id)
toggleHobby(u, id) ==
    /\ onboarding[u].path = "/onboarding"
    /\ onboarding[u].step = 3
    /\ onboarding' = [onboarding EXCEPT ![u].selectedHobbies =
                         IF id \in @ THEN @ \ {id} ELSE @ \cup {id}]
    /\ UNCHANGED <<store, txns, reply, profiles>>

\* The reply is the one handleFinish of user u awaits.
Awaited(u) ==
    /\ reply # NoReply
    /\ reply.actor = u
    /\ reply.user_id = u
    /\ \/ /\ onboarding[u].finish = "profile"
          /\ reply.op = "profile_insert"
          /\ reply.caller = "Onboarding"
       \/ /\ onboarding[u].finish = "memberships"
          /\ reply.op = "join"

\* Finish: handleFinish() up to the await of the profile insert (no avatar
\* file chosen): setSubmitting(true), then the insert of the profile with the
\* username of the form.
handleFinish(u) ==
    /\ ButtonEnabled(onboarding[u])
    /\ onboarding[u].step = 3
    /\ onboarding[u].finish = "idle"
    /\ ProfileInsertBegin(u, u, onboarding[u].username, "Onboarding")
    /\ onboarding' = [onboarding EXCEPT ![u].submitting = TRUE,
                                        ![u].finish = "profile"]

\* Mutation: profileError is not thrown.
handleFinishProfile_ErrorIgnored(u) ==
    /\ Awaited(u)
    /\ onboarding[u].finish = "profile"
    /\ reply' = NoReply
    /\ onboarding' = [onboarding EXCEPT ![u].finish = "clubs"]
    /\ UNCHANGED <<store, txns, profiles>>

\* The profile insert returned: an error is thrown, caught (toast.error) and
\* submitting is reset; otherwise the select of the clubs is awaited.
handleFinishProfile(u) ==
    /\ Awaited(u)
    /\ onboarding[u].finish = "profile"
    /\ reply' = NoReply
    /\ onboarding' =
         IF reply.outcome # OK
         THEN [onboarding EXCEPT ![u].toast = "error",
                                 ![u].submitting = FALSE,
                                 ![u].finish = "idle"]
         ELSE [onboarding EXCEPT ![u].finish = "clubs"]
    /\ UNCHANGED <<store, txns, profiles>>

\* The select of the clubs whose slug is a selected hobby returned: one insert
\* of the memberships of all of them (one row, as one club is seeded).
handleFinishClubs(u) ==
    /\ onboarding[u].finish = "clubs"
    /\ \E club \in Clubs :
          /\ {club} = Clubs \cap onboarding[u].selectedHobbies
          /\ Join(u, u, club)
    /\ onboarding' = [onboarding EXCEPT ![u].finish = "memberships"]
    /\ UNCHANGED profiles

\* handleFinish from await refreshProfile() on, with the form's state o: when
\* the call is rejected the exception is caught (toast.error), else
\* toast.success and navigate("/app"); finally submitting is reset.
handleFinishEnds(o, rejected) ==
    IF rejected
    THEN [o EXCEPT !.toast = "error", !.refreshed = TRUE,
                   !.submitting = FALSE, !.finish = "idle"]
    ELSE [o EXCEPT !.toast = "Welcome to TUNE-IN!", !.path = "/app",
                   !.refreshed = TRUE, !.submitting = FALSE, !.finish = "idle"]

\* The select of the clubs returned no data (it failed): no membership is
\* inserted, and handleFinish goes on with refreshProfile().
handleFinishNoClubs(u, rejected) ==
    /\ onboarding[u].finish = "clubs"
    /\ onboarding' = [onboarding EXCEPT ![u] = handleFinishEnds(@, rejected)]
    /\ UNCHANGED <<store, txns, reply, profiles>>

\* The insert of the memberships returned; its result is not looked at, and
\* handleFinish goes on with refreshProfile().
handleFinishMemberships(u, rejected) ==
    /\ Awaited(u)
    /\ onboarding[u].finish = "memberships"
    /\ reply' = NoReply
    /\ onboarding' = [onboarding EXCEPT ![u] = handleFinishEnds(@, rejected)]
    /\ UNCHANGED <<store, txns, profiles>>

(* -------------------------- MainApp: the feed --------------------------- *)

\* Mutation: the operands of the subtraction are exchanged.
Minus_Swapped(a, b) ==
    IF b.ms - a.ms < 0
    THEN Ms(b.d - a.d - 1, b.ms - a.ms + DayMs)
    ELSE Ms(b.d - a.d, b.ms - a.ms)

\* Number arithmetic on milliseconds: a - b, a < b, a > 0.
Minus(a, b) ==
    IF a.ms - b.ms < 0
    THEN Ms(a.d - b.d - 1, a.ms - b.ms + DayMs)
    ELSE Ms(a.d - b.d, a.ms - b.ms)

\* Mutation: a <= b for a < b.
Less_OrEqual(a, b) ==
    IF b.inf THEN TRUE
    ELSE ~a.inf /\ (a.d < b.d \/ (a.d = b.d /\ a.ms <= b.ms))

Less(a, b) ==
    IF b.inf THEN ~a.inf
    ELSE ~a.inf /\ (a.d < b.d \/ (a.d = b.d /\ a.ms < b.ms))

Positive(a) == a.inf \/ a.d > 0 \/ (a.d = 0 /\ a.ms > 0)

\* Mutation: the time of day is dropped.
getTime_DayOnly(created_at) == Ms(created_at.day, 0)

\* new Date(created_at).getTime(): the milliseconds of the timestamp text
\* created_at, [day, ms] (the day since the epoch and the time of day to the
\* millisecond).
getTime(created_at) == Ms(created_at.day, created_at.ms)

\* Mutation: the text is compared as it is.
toLowerCase_Identity(text) == text

\* String.prototype.toLowerCase: A-Z are mapped to a-z, other characters stay.
toLowerCase(text) ==
    [i \in 1..Len(text) |->
        IF \E k \in 1..Len(UpperCase) : UpperCase[k] = text[i]
        THEN LowerCase[CHOOSE k \in 1..Len(UpperCase) : UpperCase[k] = text[i]]
        ELSE text[i]]

\* String.prototype.includes: q occurs in text as a substring.
includes(text, q) ==
    \E i \in 0..(Len(text) - Len(q)) : SubSeq(text, i + 1, i + Len(q)) = q

RECURSIVE InsertSorted(_, _, _, _)
\* x is put before the first element from position i on that compareFn places
\* after it (compareFn(e, x) > 0), else at the end.
InsertSorted(sorted, x, compareFn, i) ==
    IF i > Len(sorted) THEN Append(sorted, x)
    ELSE IF compareFn[sorted[i], x]
    THEN SubSeq(sorted, 1, i - 1) \o <<x>> \o SubSeq(sorted, i, Len(sorted))
    ELSE InsertSorted(sorted, x, compareFn, i + 1)

RECURSIVE SortFrom(_, _, _, _)
\* The elements of array from position i on inserted, in order, into sorted.
SortFrom(array, sorted, compareFn, i) ==
    IF i > Len(array) THEN sorted
    ELSE SortFrom(array, InsertSorted(sorted, array[i], compareFn, 1), compareFn, i + 1)

\* The arrays a call works on: heap[r] is the array behind the reference r.
\* Array.prototype.filter and [...a] make a new array (its reference is the
\* length of the new heap); Array.prototype.sort sorts the array behind its
\* reference in place and is stable; compareFn[a, b] here is "compareFn(a, b) > 0",
\* and a callback is the function of its values on the elements of the array.
filter(heap, r, predicate) ==
    Append(heap, SelectSeq(heap[r], LAMBDA x : predicate[x]))

spread(heap, r) == Append(heap, heap[r])

sort(heap, r, compareFn) ==
    [heap EXCEPT ![r] = SortFrom(heap[r], <<>>, compareFn, 1)]

\* windows: Record<string, number>, and windows[sort] || Infinity.
windows ==
    [s \in {"top-3m", "top-6m", "top-1y", "top-all"} |->
        IF s = "top-3m" THEN Ms(90, 0)
        ELSE IF s = "top-6m" THEN Ms(180, 0)
        ELSE IF s = "top-1y" THEN Ms(365, 0)
        ELSE Infinity]

window(sortMode) == IF sortMode \in DOMAIN windows THEN windows[sortMode] ELSE Infinity

\* Mutation: the sort is applied to result itself, not to a copy of it.
filteredPosts_SortInPlace(posts_, search, sortMode, clock) ==
    LET q == toLowerCase(search)
        all == Range(posts_)
        matches == [p \in all |->
            \/ includes(toLowerCase(p.title), q)
            \/ p.content # <<>> /\ includes(toLowerCase(p.content[1]), q)]
        newer == [a \in all, b \in all |->
            Positive(Minus(getTime(b.created_at), getTime(a.created_at)))]
        inWindow == [p \in all |->
            \/ window(sortMode) = Infinity
            \/ Less(Minus(clock, getTime(p.created_at)), window(sortMode))]
        higher == [a \in all, b \in all |-> b.score - a.score > 0]
        h0 == <<posts_>>
        h1 == IF search # <<>> THEN filter(h0, 1, matches) ELSE h0
        r1 == Len(h1)
        h2 == IF sortMode = "new"
              THEN sort(h1, r1, newer)
              ELSE filter(h1, r1, inWindow)
        r2 == Len(h2)
        h3 == IF sortMode = "new" THEN h2 ELSE sort(h2, r2, higher)
    IN [result |-> h3[r2], posts |-> h3[1]]

\* filteredPosts, the memo over [posts, search, sort], computed at the time
\* clock: its value, result, and the array posts as the call leaves it.
filteredPosts(posts_, search, sortMode, clock) ==
    LET q == toLowerCase(search)
        all == Range(posts_)
        matches == [p \in all |->
            \/ includes(toLowerCase(p.title), q)
            \/ p.content # <<>> /\ includes(toLowerCase(p.content[1]), q)]
        newer == [a \in all, b \in all |->
            Positive(Minus(getTime(b.created_at), getTime(a.created_at)))]
        inWindow == [p \in all |->
            \/ window(sortMode) = Infinity
            \/ Less(Minus(clock, getTime(p.created_at)), window(sortMode))]
        higher == [a \in all, b \in all |-> b.score - a.score > 0]
        h0 == <<posts_>>
        h1 == IF search # <<>> THEN filter(h0, 1, matches) ELSE h0
        r1 == Len(h1)
        h2 == spread(h1, r1)
        r2 == Len(h2)
        h3 == IF sortMode = "new"
              THEN sort(h2, r2, newer)
              ELSE filter(h2, r2, inWindow)
        r3 == Len(h3)
        h4 == IF sortMode = "new" THEN h3 ELSE sort(h3, r3, higher)
    IN [result |-> h4[r3], posts |-> h4[1]]

\* A render of MainApp with the state m at the time clock: the memo is
\* computed anew.
Rendered(m, clock) ==
    LET call == filteredPosts(m.posts, m.search, m.sort, clock)
    IN [m EXCEPT !.feed = call.result, !.posts = call.posts]

\* setPosts(data) of loadPosts, and the render it causes.
setPosts(data) ==
    /\ mainApp' = Rendered([mainApp EXCEPT !.posts = data], now)
    /\ UNCHANGED <<store, txns, reply, profiles, onboarding, now, route>>

\* setSearch(e.target.value) of the search input, and the render it causes.
setSearch(value) ==
    /\ mainApp' = Rendered([mainApp EXCEPT !.search = value], now)
    /\ UNCHANGED <<store, txns, reply, profiles, onboarding, now, route>>

\* setSort(value) of the sort buttons, and the render it causes.
setSort(value) ==
    /\ mainApp' = Rendered([mainApp EXCEPT !.sort = value], now)
    /\ UNCHANGED <<store, txns, reply, profiles, onboarding, now, route>>

\* The clock moves on.
Tick ==
    /\ \E i \in 1..(Len(Clock) - 1) : now = Clock[i] /\ now' = Clock[i + 1]
    /\ UNCHANGED <<store, txns, reply, profiles, onboarding, mainApp, route>>

(* ----------------------------- specification --------------------------- *)

VoteNext ==
    \/ \E a \in Users, u \in Users, p \in PostIds, v \in VoteInputs :
          VoteInsertBegin(a, u, p, v) /\ UNCHANGED rest
    \/ \E x \in InProgress : VoteInsertRow(x) /\ UNCHANGED rest
    \/ \E x \in InProgress : VoteInsertTrigger(x) /\ UNCHANGED rest
    \/ \E x \in InProgress : VoteInsertCommit(x) /\ UNCHANGED rest
    \/ \E a \in Users, u \in Users, p \in PostIds : VoteDeleteBegin(a, u, p) /\ UNCHANGED rest
    \/ \E x \in InProgress : VoteDeleteTrigger(x) /\ UNCHANGED rest
    \/ \E x \in InProgress : VoteDeleteCommit(x) /\ UNCHANGED rest
    \/ \E x \in InProgress : Abort(x) /\ UNCHANGED rest
    \/ Ack /\ UNCHANGED rest

Next ==
    \/ VoteNext
    \/ \E a \in Users, u \in Users, c \in Clubs, s \in ScoreInputs :
          PostInsertBegin(a, u, c, s) /\ UNCHANGED rest
    \/ \E x \in InProgress : PostInsertCommit(x) /\ UNCHANGED rest
    \/ \E a \in Users, p \in PostIds, s \in ScoreInputs :
          s # <<>> /\ PostUpdate(a, p, s[1]) /\ UNCHANGED rest
    \/ \E a \in Users, u \in Users, c \in Clubs : Join(a, u, c) /\ UNCHANGED rest
    \/ \E a \in Users, u \in Users, c \in Clubs : Leave(a, u, c) /\ UNCHANGED rest

Spec == Init /\ [][Next]_vars

\* A store that holds two posts of the member u1, not voted on yet, and the
\* statements on post_votes and club_memberships.
SeededPosts ==
    <<[club_id |-> "tech", user_id |-> "u1", score |-> 0],
      [club_id |-> "tech", user_id |-> "u1", score |-> 0]>>

InitVotes ==
    /\ club_memberships = SetToBag({[user_id |-> "u1", club_id |-> "tech"]})
    /\ posts = SeededPosts
    /\ post_votes = EmptyBag
    /\ txns = EmptyBag
    /\ reply = NoReply
    /\ profiles = EmptyBag
    /\ onboarding = [u \in Users |-> OnboardingMounted]
    /\ mainApp = MainAppMounted
    /\ now = Clock[1]
    /\ route = RouteLoading

NextVotes ==
    \/ VoteNext
    \/ \E a \in Users, u \in Users, c \in Clubs : Join(a, u, c) /\ UNCHANGED rest
    \/ \E a \in Users, u \in Users, c \in Clubs : Leave(a, u, c) /\ UNCHANGED rest

SpecVotes == InitVotes /\ [][NextVotes]_vars

\* The statements on posts and club_memberships alone, from the empty store.
NextPosts ==
    \/ \E a \in Users, u \in Users, c \in Clubs, s \in ScoreInputs :
          PostInsertBegin(a, u, c, s) /\ UNCHANGED rest
    \/ \E x \in InProgress : PostInsertCommit(x) /\ UNCHANGED rest
    \/ \E a \in Users, p \in PostIds, s \in ScoreInputs :
          s # <<>> /\ PostUpdate(a, p, s[1]) /\ UNCHANGED rest
    \/ \E a \in Users, u \in Users, c \in Clubs : Join(a, u, c) /\ UNCHANGED rest
    \/ \E a \in Users, u \in Users, c \in Clubs : Leave(a, u, c) /\ UNCHANGED rest
    \/ \E x \in InProgress : Abort(x) /\ UNCHANGED rest
    \/ Ack /\ UNCHANGED rest

SpecPosts == Init /\ [][NextPosts]_vars

\* One user's Onboarding form, and profile inserts as bare requests.
NextForm ==
    \/ \E v \in Usernames : OnChangeUsername("u1", v) /\ UNCHANGED app
    \/ \E v \in Usernames, failed \in BOOLEAN : CheckUsernameReturns("u1", v, failed) /\ UNCHANGED app
    \/ Continue("u1") /\ UNCHANGED app
    \/ Back("u1") /\ UNCHANGED app
    \/ \E id \in HOBBIES : toggleHobby("u1", id) /\ UNCHANGED app
    \/ \E a \in Users, u \in Users, n \in Usernames :
          ProfileInsertBegin(a, u, n, "api") /\ UNCHANGED <<onboarding, app>>
    \/ \E x \in InProgress : ProfileInsertRow(x) /\ UNCHANGED <<onboarding, app>>
    \/ \E x \in InProgress : ProfileInsertCommit(x) /\ UNCHANGED <<onboarding, app>>
    \/ \E x \in InProgress : Abort(x) /\ UNCHANGED rest
    \/ Ack /\ UNCHANGED rest

SpecForm == Init /\ [][NextForm]_vars

\* The usernames the form lets through: canProceed() at step 0 after a check
\* that found no profile of that name.
FormUsernames == {n \in Usernames : Len(n) >= 3 /\ UsernamePattern(n)}

\* Every user stands at the last step of the form, with a username that the
\* availability check reported free (no profile exists yet) and a hobby
\* selected.
InitFinish ==
    /\ club_memberships = EmptyBag
    /\ posts = <<>>
    /\ post_votes = EmptyBag
    /\ txns = EmptyBag
    /\ reply = NoReply
    /\ profiles = EmptyBag
    /\ onboarding \in [Users -> {[OnboardingMounted EXCEPT !.step = 3,
                                                           !.username = n,
                                                           !.selectedHobbies = HOBBIES]
                                   : n \in FormUsernames}]
    /\ mainApp = MainAppMounted
    /\ now = Clock[1]
    /\ route = RouteLoading

\* handleFinish of every user, the statements on profiles and club_memberships
\* it issues, and the same statements as bare requests.
NextFinish ==
    \/ \E u \in Users : handleFinish(u) /\ UNCHANGED app
    \/ \E u \in Users : handleFinishProfile(u) /\ UNCHANGED app
    \/ \E u \in Users : handleFinishClubs(u) /\ UNCHANGED app
    \/ \E u \in Users, rejected \in BOOLEAN :
          handleFinishNoClubs(u, rejected) /\ UNCHANGED app
    \/ \E u \in Users, rejected \in BOOLEAN :
          handleFinishMemberships(u, rejected) /\ UNCHANGED app
    \/ \E a \in Users, u \in Users, n \in FormUsernames :
          ProfileInsertBegin(a, u, n, "api") /\ UNCHANGED <<onboarding, app>>
    \/ \E x \in InProgress : ProfileInsertRow(x) /\ UNCHANGED <<onboarding, app>>
    \/ \E x \in InProgress : ProfileInsertCommit(x) /\ UNCHANGED <<onboarding, app>>
    \/ \E a \in Users, u \in Users, n \in FormUsernames :
          ProfileUpdate(a, u, n) /\ UNCHANGED <<onboarding, app>>
    \/ \E a \in Users, u \in Users, c \in Clubs :
          Join(a, u, c) /\ UNCHANGED rest
    \/ \E x \in InProgress : Abort(x) /\ UNCHANGED rest
    \/ (\A u \in Users : ~Awaited(u)) /\ Ack /\ UNCHANGED rest

SpecFinish == InitFinish /\ [][NextFinish]_vars

(* ---------------------------- ProtectedRoute ---------------------------- *)

\* The values useAuth() may give: a user or null, a row of profiles (of any
\* user, with or without an avatar) or null, and loading.
AuthUsers == {<<>>} \cup {<<u>> : u \in Users}

AuthProfiles ==
    {<<>>} \cup {<<[user_id |-> u, username |-> n, avatar_url |-> a]>> :
                    u \in Users, n \in Usernames, a \in {<<>>, <<"url">>}}

\* ProtectedRoute mounts with whatever the context holds.
InitRoute ==
    /\ club_memberships = EmptyBag
    /\ posts = <<>>
    /\ post_votes = EmptyBag
    /\ txns = EmptyBag
    /\ reply = NoReply
    /\ profiles = EmptyBag
    /\ onboarding = [u \in Users |-> OnboardingMounted]
    /\ mainApp = MainAppMounted
    /\ now = Clock[1]
    /\ \E user \in AuthUsers, profile \in AuthProfiles, loading \in BOOLEAN :
          route = RouteRendered(user, profile, loading)

\* The context changes and ProtectedRoute renders again.
useAuth(user, profile, loading) ==
    /\ <<user, profile, loading>> # <<route.user, route.profile, route.loading>>
    /\ route' = RouteRendered(user, profile, loading)
    /\ UNCHANGED <<store, txns, reply, profiles, onboarding, mainApp, now>>

NextRoute ==
    \E user \in AuthUsers, profile \in AuthProfiles, loading \in BOOLEAN :
        useAuth(user, profile, loading)

SpecRoute == InitRoute /\ [][NextRoute]_vars

\* At most MaxFeed posts are loaded into the feed.
MaxFeed == 3

\* Posts as MainApp may hold them: text is a sequence of characters, content is
\* <<>> for null and <<text>> otherwise, created_at is [day, ms].  Their ages at
\* Clock[1] are 90 days (1), 1 ms less (2, 3), 365 days (4) and 180 days (5).
FeedPosts ==
    {[id |-> 1, title |-> <<"G", "o">>, content |-> <<>>, score |-> 3,
      created_at |-> [day |-> 310, ms |-> 0]],
     [id |-> 2, title |-> <<"x">>, content |-> << <<"a", "g", "O">> >>, score |-> 5,
      created_at |-> [day |-> 310, ms |-> 1]],
     [id |-> 3, title |-> <<"y">>, content |-> << <<>> >>, score |-> 3,
      created_at |-> [day |-> 310, ms |-> 1]],
     [id |-> 4, title |-> <<"Y", "o">>, content |-> <<>>, score |-> 1,
      created_at |-> [day |-> 35, ms |-> 0]],
     [id |-> 5, title |-> <<"z">>, content |-> <<>>, score |-> 0 - 2,
      created_at |-> [day |-> 220, ms |-> 0]]}

\* The sequences of posts a load may deliver: no post twice (id is the key).
FeedInputs ==
    {data \in UNION {[1..n -> FeedPosts] : n \in 0..MaxFeed} :
        \A i, j \in DOMAIN data : i # j => data[i] # data[j]}

\* What the search input may hold, and the sort buttons.
Searches == {<<>>, <<"g", "O">>, <<"z", "z">>}

Sorts == {"new", "top-3m", "top-6m", "top-1y", "top-all"}

\* MainApp's posts, search and sort set in any order, and the clock.
NextFeed ==
    \/ \E data \in FeedInputs : setPosts(data)
    \/ \E value \in Searches : setSearch(value)
    \/ \E value \in Sorts : setSort(value)
    \/ Tick

SpecFeed == Init /\ [][NextFeed]_vars

(* ------------------------- MainApp: handleVote ------------------------- *)

\* useAuth().user: the user MainApp runs for.
AuthUser == "u1"

\* The row of posts with the id p as select("*") returns it: the score the
\* store holds, and the columns the tables above leave out (title, content,
\* created_at) as the post of that id in FeedPosts has them.
SelectedPost(p) ==
    [(CHOOSE f \in FeedPosts : f.id = p) EXCEPT !.score = posts[p].score]

\* activeClub: a club AuthUser is a member of.
activeClub == CHOOSE c \in Clubs : is_club_member(AuthUser, c)

\* loadPosts: select("*") of the posts of activeClub,
\* .order("created_at", descending).
loadPosts ==
    LET ids == SelectSeq([p \in 1..Len(posts) |-> p],
                         LAMBDA p : posts[p].club_id = activeClub)
        rows == [i \in 1..Len(ids) |-> SelectedPost(ids[i])]
        newer == [a \in Range(rows), b \in Range(rows) |->
            Positive(Minus(getTime(b.created_at), getTime(a.created_at)))]
    IN SortFrom(rows, <<>>, newer, 1)

\* votes.find((v) => v.post_id === postId): <<>> for undefined.
find(votes, postId) ==
    LET at == {i \in 1..Len(votes) : votes[i].post_id = postId}
    IN IF at = {} THEN <<>>
       ELSE <<votes[CHOOSE i \in at : \A j \in at : i <= j]>>

\* prev.map((p) => p.id === postId ? { ...p, score: p.score + delta } : p)
mapScore(prev, postId, delta) ==
    [i \in 1..Len(prev) |->
        IF prev[i].id = postId THEN [prev[i] EXCEPT !.score = @ + delta] ELSE prev[i]]

\* The call c of handleVote moves on as d, or returns.
CallMoved(c, d) == (mainApp.calls (-) SetToBag({c})) (+) SetToBag({d})

CallReturned(c) == mainApp.calls (-) SetToBag({c})

\* A click on a vote button of a post of the feed: handleVote(postId, value) up
\* to its first await, the delete of the vote the list votes holds for the
\* post, or the insert when it holds none.
handleVote(postId, value) ==
    LET existing == find(mainApp.votes, postId)
        call == [postId |-> postId, value |-> value, existing |-> existing,
                 await |-> IF existing # <<>> THEN "delete" ELSE "insert"]
    IN /\ \E p \in Range(mainApp.feed) : p.id = postId
       /\ BagCardinality(mainApp.calls) < MaxCalls
       /\ \A p \in Range(mainApp.posts) : p.score \in (0 - MaxShown)..MaxShown
       /\ IF existing # <<>>
          THEN VoteDeleteBegin(AuthUser, AuthUser, postId)
          ELSE VoteInsertBegin(AuthUser, AuthUser, postId, value)
       /\ mainApp' = [mainApp EXCEPT !.calls = @ (+) SetToBag({call})]
       /\ UNCHANGED <<profiles, onboarding, now, route>>

\* The reply is the one the call c of handleVote awaits.
AwaitedByCall(c) ==
    /\ reply # NoReply
    /\ reply.actor = AuthUser
    /\ reply.post_id = c.postId
    /\ \/ c.await = "delete" /\ reply.op = "vote_delete"
       \/ c.await = "insert" /\ reply.op = "vote_insert" /\ reply.vote_value = c.value

\* Mutation: the insert is sent whatever value the vote held had.
handleVoteDeleted_AlwaysReinsert(c) ==
    LET m == [mainApp EXCEPT
                !.votes = SelectSeq(@, LAMBDA v : v.post_id # c.postId),
                !.posts = mapScore(@, c.postId, 0 - c.existing[1].vote_value),
                !.calls = CallMoved(c, [c EXCEPT !.await = "send"])]
    IN /\ BagIn(c, mainApp.calls)
       /\ AwaitedByCall(c)
       /\ c.await = "delete"
       /\ reply' = NoReply
       /\ mainApp' = Rendered(m, now)
       /\ UNCHANGED <<store, txns, profiles, onboarding, now, route>>

\* The delete returned; its result is not looked at: the votes of the post
\* leave the list, the post's score is lowered by the vote held, and with
\* another value than the one held the insert of the new vote is sent.
handleVoteDeleted(c) ==
    LET m == [mainApp EXCEPT
                !.votes = SelectSeq(@, LAMBDA v : v.post_id # c.postId),
                !.posts = mapScore(@, c.postId, 0 - c.existing[1].vote_value),
                !.calls = IF c.existing[1].vote_value # c.value
                          THEN CallMoved(c, [c EXCEPT !.await = "send"])
                          ELSE CallReturned(c)]
    IN /\ BagIn(c, mainApp.calls)
       /\ AwaitedByCall(c)
       /\ c.await = "delete"
       /\ reply' = NoReply
       /\ mainApp' = Rendered(m, now)
       /\ UNCHANGED <<store, txns, profiles, onboarding, now, route>>

\* The insert of the new vote, sent after the delete, reaches the store.
handleVoteReinsert(c) ==
    /\ BagIn(c, mainApp.calls)
    /\ c.await = "send"
    /\ VoteInsertBegin(AuthUser, AuthUser, c.postId, c.value)
    /\ mainApp' = [mainApp EXCEPT !.calls = CallMoved(c, [c EXCEPT !.await = "insert"])]
    /\ UNCHANGED <<profiles, onboarding, now, route>>

\* The insert returned; its result is not looked at: the vote joins the list
\* and the post's score is raised by its value.
handleVoteInserted(c) ==
    LET m == [mainApp EXCEPT
                !.votes = Append(@, [post_id |-> c.postId, vote_value |-> c.value]),
                !.posts = mapScore(@, c.postId, c.value),
                !.calls = CallReturned(c)]
    IN /\ BagIn(c, mainApp.calls)
       /\ AwaitedByCall(c)
       /\ c.await = "insert"
       /\ reply' = NoReply
       /\ mainApp' = Rendered(m, now)
       /\ UNCHANGED <<store, txns, profiles, onboarding, now, route>>

\* Mutation: a policy FOR UPDATE lets a user change their own votes.
VotesUpdatable_Own(uid) ==
    LET own == {r \in BagToSet(post_votes) : r.user_id = uid}
    IN [r \in own |-> CopiesIn(r, post_votes)]

\* Row level security is enabled on post_votes and no policy is FOR UPDATE:
\* the statement sees no row it may change.
VotesUpdatable(uid) == EmptyBag

\* UPDATE post_votes SET vote_value = .. WHERE user_id = .. AND post_id = ..
\* by actor.
VoteUpdate(actor, user_id, post_id, vote_value) ==
    LET req == Request("vote_update", actor, user_id, post_id, NoClub, vote_value)
        all == RowsOf(post_votes, user_id, post_id)
        seen == {r \in BagToSet(all) : BagIn(r, VotesUpdatable(actor))}
        target == [r \in seen |-> CopiesIn(r, all)]
        updated == [r \in {[t EXCEPT !.vote_value = vote_value] : t \in seen}
                      |-> BagCardinality(target)]
    IN /\ NoPendingReply
       /\ ConnFree
       /\ target = EmptyBag \/ VoteKeyFree(user_id, post_id)
       /\ IF target # EmptyBag /\ ~VoteValueCheck(req)
          THEN /\ reply' = Reply(req, ValidationError)
               /\ UNCHANGED post_votes
          ELSE /\ reply' = Reply(req, OK)
               /\ post_votes' = (post_votes (-) target) (+) updated
       /\ UNCHANGED <<club_memberships, posts, txns>>

\* MainApp of u1, who has a profile, mounted inside its ProtectedRoute over the
\* first seeded post, posts and votes loaded, no vote cast yet.
InitMainApp ==
    /\ club_memberships = SetToBag({[user_id |-> "u1", club_id |-> "tech"]})
    /\ posts = <<SeededPosts[1]>>
    /\ post_votes = EmptyBag
    /\ txns = EmptyBag
    /\ reply = NoReply
    /\ profiles = SetToBag({[user_id |-> AuthUser, username |-> <<"a", "n", "n">>]})
    /\ onboarding = [u \in Users |-> OnboardingMounted]
    /\ mainApp = Rendered([MainAppMounted EXCEPT !.posts = loadPosts], Clock[1])
    /\ now = Clock[1]
    /\ route = RouteRendered(<<AuthUser>>,
                             <<[user_id |-> AuthUser, username |-> <<"a", "n", "n">>,
                                avatar_url |-> <<>>]>>,
                             FALSE)

\* MainApp's user votes with the buttons; another user sends bare requests on
\* votes of their own.
NextMainApp ==
    \/ \E p \in PostIds, v \in {1, -1} : handleVote(p, v)
    \/ \E c \in BagToSet(mainApp.calls) : handleVoteDeleted(c)
    \/ \E c \in BagToSet(mainApp.calls) : handleVoteReinsert(c)
    \/ \E c \in BagToSet(mainApp.calls) : handleVoteInserted(c)
    \/ \E u \in Users \ {AuthUser}, p \in PostIds, v \in VoteInputs :
          VoteInsertBegin(u, u, p, v) /\ UNCHANGED rest
    \/ \E x \in InProgress : VoteInsertRow(x) /\ UNCHANGED rest
    \/ \E x \in InProgress : VoteInsertTrigger(x) /\ UNCHANGED rest
    \/ \E x \in InProgress : VoteInsertCommit(x) /\ UNCHANGED rest
    \/ \E u \in Users \ {AuthUser}, p \in PostIds :
          VoteDeleteBegin(u, u, p) /\ UNCHANGED rest
    \/ \E x \in InProgress : VoteDeleteTrigger(x) /\ UNCHANGED rest
    \/ \E x \in InProgress : VoteDeleteCommit(x) /\ UNCHANGED rest
    \/ \E u \in Users \ {AuthUser}, p \in PostIds, v \in VoteInputs :
          VoteUpdate(u, u, p, v) /\ UNCHANGED rest
    \/ \E x \in InProgress : Abort(x) /\ UNCHANGED rest
    \/ reply.actor # AuthUser /\ Ack /\ UNCHANGED rest

SpecMainApp == InitMainApp /\ [][NextMainApp]_vars

\* MainApp's user alone, clicking the vote buttons; no statement is aborted.
NextClicks ==
    \/ \E p \in PostIds, v \in {1, -1} : handleVote(p, v)
    \/ \E c \in BagToSet(mainApp.calls) : handleVoteDeleted(c)
    \/ \E c \in BagToSet(mainApp.calls) : handleVoteReinsert(c)
    \/ \E c \in BagToSet(mainApp.calls) : handleVoteInserted(c)
    \/ \E x \in InProgress : VoteInsertRow(x) /\ UNCHANGED rest
    \/ \E x \in InProgress : VoteInsertTrigger(x) /\ UNCHANGED rest
    \/ \E x \in InProgress : VoteInsertCommit(x) /\ UNCHANGED rest
    \/ \E x \in InProgress : VoteDeleteTrigger(x) /\ UNCHANGED rest
    \/ \E x \in InProgress : VoteDeleteCommit(x) /\ UNCHANGED rest

SpecClicks == InitMainApp /\ [][NextClicks]_vars

(* ------------------------------- claims -------------------------------- *)

\* The vote row the statement r writes.
VoteRow(r) == [user_id |-> r.user_id, post_id |-> r.post_id, vote_value |-> r.vote_value]

\* This step ends a statement of kind op (reply' is its reply).
Ends(op) == reply' # reply /\ reply'.op = op

\* This step starts the transaction x (x is in progress after it, or once more
\* than before).
Starts(x) == CopiesIn(x, txns') > CopiesIn(x, txns)

\* User u has a committed vote on post p; user u is a committed member of club c.
Voted(u, p) == RowsOf(post_votes, u, p) # EmptyBag

Member(u, c) == MembershipsOf(u, c) # EmptyBag

\* posts with the score of post p changed by d and nothing else changed.
ScoreMoved(p, d) == [posts EXCEPT ![p].score = @ + d]

\* C1: in every reachable state each post's stored score equals the sum of
\* vote_value over the votes that exist for that post (0 for a post without
\* votes).
C1_ScoreIsVoteSum ==
    \A p \in 1..Len(posts) : posts[p].score = VoteSum(post_votes, p)

\* C2: in every reachable state there is at most one vote row per (user, post)
\* pair, also when two inserts of the same pair both passed the policy's
\* has_voted_on_post check before either committed.
C2_OneVotePerUserPost ==
    \A u \in Users, p \in PostIds : BagCardinality(RowsOf(post_votes, u, p)) <= 1

\* Two inserts of one pair had both passed the policy; one committed and the
\* other then lost on the unique index.
C2_Witness ==
    /\ reply.op = "vote_insert"
    /\ reply.pc = "vi_checked"
    /\ reply.outcome = ConflictError
    /\ Voted(reply.user_id, reply.post_id)

\* C3: vote inserts of different users on one post that run at the same time
\* both succeed and both count: an insert that passed the policy fails on the
\* unique index only against a committed vote of its own user on that post, and
\* its commit adds the row and moves the score the store holds at that moment by
\* exactly its vote_value, leaving every other post alone.
C3_ConcurrentInsertsAdd ==
    [][\A x \in InProgress :
         (Ends("vote_insert") /\ txns' = Ended(x) /\ reply' = Reply(x, reply'.outcome)) =>
            /\ reply'.outcome \in {OK, ConflictError, NotFoundError, Aborted}
            /\ reply'.outcome = ConflictError =>
                  RowsOf(post_votes, x.user_id, x.post_id) # EmptyBag
            /\ reply'.outcome = NotFoundError => ~PostExists(x.post_id)
            /\ reply'.outcome = OK =>
                  /\ post_votes' = post_votes (+) SetToBag({VoteRow(x)})
                  /\ posts' = ScoreMoved(x.post_id, x.vote_value)]_vars

\* The insert of one user on a post has just committed while the insert of
\* another user on the same post, started before that commit, is in progress.
C3_Witness ==
    /\ reply.op = "vote_insert"
    /\ reply.outcome = OK
    /\ \E x \in InProgress :
          /\ x.op = "vote_insert"
          /\ x.pc = "vi_inserted"
          /\ x.user_id # reply.user_id
          /\ x.post_id = reply.post_id

C5_VoteAndScoreAtomic ==
    [][/\ \A p \in 1..Len(posts) :
            posts'[p].score - posts[p].score =
               VoteSum(post_votes', p) - VoteSum(post_votes, p)
       /\ (reply' # reply /\ reply'.outcome \notin {Pending, OK}) => UNCHANGED store]_vars

\* A vote insert was aborted after its row was inserted and before the trigger
\* updated the score.
C5_Witness ==
    /\ reply.op = "vote_insert"
    /\ reply.pc = "vi_inserted"
    /\ reply.outcome = Aborted

\* C6: a post's score changes only by the commit of a vote insert (by
\* +vote_value) or of a vote delete (by -vote_value) on that post, a vote
\* statement changes no other post's score, no other statement changes a score,
\* and a newly inserted post has score 0.
C6_ScoreOnlyByVotes ==
    [][/\ \A p \in 1..Len(posts) :
            posts'[p].score # posts[p].score =>
               \E x \in InProgress :
                  /\ txns' = Ended(x)
                  /\ x.post_id = p
                  /\ \/ x.pc = "vi_scored" /\ posts' = ScoreMoved(p, x.vote_value)
                     \/ x.pc = "vd_scored" /\ posts' = ScoreMoved(p, 0 - VoteSum(x.rows, p))
       /\ \A p \in (1..Len(posts')) \ (1..Len(posts)) : posts'[p].score = 0]_vars

\* C7: membership is no precondition of voting: a vote insert under the user's
\* own identity on a post of a club the user is not a member of, by a user
\* without a vote on that post, is not rejected, and its commit records the row
\* and moves the score by vote_value.
C7_NonMemberCanVote ==
    [][(/\ Ends("vote_insert")
        /\ reply'.actor = reply'.user_id
        /\ PostExists(reply'.post_id)
        /\ ~Member(reply'.user_id, posts[reply'.post_id].club_id)
        /\ ~Voted(reply'.user_id, reply'.post_id)
        /\ VoteValueCheck(reply')) =>
           /\ reply'.outcome \in {OK, Aborted}
           /\ reply'.outcome = OK =>
                 /\ post_votes' = post_votes (+) SetToBag({VoteRow(reply')})
                 /\ posts' = ScoreMoved(reply'.post_id, reply'.vote_value)]_vars

\* The vote of a user who is not a member of the post's club has just been
\* committed.
C7_Witness ==
    /\ reply.op = "vote_insert"
    /\ reply.outcome = OK
    /\ ~Member(reply.user_id, posts[reply.post_id].club_id)
    /\ Voted(reply.user_id, reply.post_id)

\* C8: a post insert gets past the policy only if, in the committed state its
\* statement reads, the actor is the row's user_id and a member of the row's
\* club; any other post insert fails with AuthorizationError and changes
\* nothing; and a post is added only by the commit of an insert that got past
\* the policy.
C8_OnlyMembersPost ==
    [][/\ \A x \in BagToSet(txns') :
            (Starts(x) /\ x.op = "post_insert") =>
               x.actor = x.user_id /\ Member(x.actor, x.club_id)
       /\ (Ends("post_insert") /\ reply'.pc = "new") =>
            /\ reply'.outcome = AuthorizationError
            /\ UNCHANGED store
       /\ \A a \in Users, u \in Users, c \in Clubs :
            (Ends("post_insert") /\ reply'.pc = "new"
               /\ reply'.actor = a /\ reply'.user_id = u /\ reply'.club_id = c) =>
               a # u \/ ~Member(a, c)
       /\ posts' # posts =>
            \E x \in InProgress :
               /\ x.op = "post_insert"
               /\ x.pc = "pi_checked"
               /\ txns' = Ended(x)
               /\ Len(posts') = Len(posts) + 1
               /\ SubSeq(posts', 1, Len(posts)) = posts
               /\ posts'[Len(posts')].user_id = x.user_id
               /\ posts'[Len(posts')].club_id = x.club_id]_vars

\* The author of a post of the club, who has left the club since, asked as
\* themselves to insert another post in it and was refused.
C8_Witness ==
    /\ reply.op = "post_insert"
    /\ reply.actor = reply.user_id
    /\ reply.outcome = AuthorizationError
    /\ ~Member(reply.actor, reply.club_id)
    /\ \E p \in 1..Len(posts) :
          posts[p].user_id = reply.actor /\ posts[p].club_id = reply.club_id

\* C9: a vote delete by a user who has no vote on the post ends without an
\* error and changes nothing; a vote delete never ends with an error; and the
\* commit of a user's delete removes exactly that user's vote on that post,
\* moving that post's score by minus its vote_value and nothing else.
C9_RemoveVote ==
    [][Ends("vote_delete") =>
         LET r == reply'
             mine == RowsOf(post_votes, r.user_id, r.post_id)
         IN /\ r.outcome \in {OK, Aborted}
            /\ (r.actor = r.user_id /\ mine = EmptyBag) =>
                  r.outcome = OK /\ UNCHANGED store
            /\ (r.actor = r.user_id /\ mine # EmptyBag /\ r.outcome = OK) =>
                  /\ BagCardinality(mine) = 1
                  /\ post_votes' = post_votes (-) mine
                  /\ posts' = ScoreMoved(r.post_id, 0 - VoteSum(mine, r.post_id))
                  /\ UNCHANGED club_memberships]_vars

\* A user without a vote on an existing post asked to delete it and was
\* answered without an error, while other votes exist.
C9_Witness ==
    /\ reply.op = "vote_delete"
    /\ reply.pc = "new"
    /\ reply.actor = reply.user_id
    /\ reply.outcome = OK
    /\ ~Voted(reply.user_id, reply.post_id)
    /\ post_votes # EmptyBag

\* The vote rows of user u in bag B, as a bag.
VotesOfUser(B, u) ==
    LET rs == {r \in BagToSet(B) : r.user_id = u}
    IN [r \in rs |-> CopiesIn(r, B)]

\* C10: the vote rows of a user change only by the commit of a statement that
\* user issued on their own rows, and a vote insert or delete whose actor is
\* not the row's user_id changes no vote and no score (the insert is refused).
C10_OwnVotesOnly ==
    [][/\ \A u \in Users :
            VotesOfUser(post_votes', u) # VotesOfUser(post_votes, u) =>
               \E x \in InProgress :
                  x.actor = u /\ x.user_id = u /\ txns' = Ended(x)
       /\ \A x \in InProgress : x.op \in {"vote_insert", "vote_delete"} => x.actor = x.user_id
       /\ (reply' # reply /\ reply'.op \in {"vote_insert", "vote_delete"}
             /\ reply'.actor # reply'.user_id) =>
            /\ UNCHANGED store
            /\ reply'.op = "vote_insert" => reply'.outcome = AuthorizationError]_vars

\* A user asked to delete another user's existing vote; the vote is still there.
C10_Witness ==
    /\ reply.op = "vote_delete"
    /\ reply.actor # reply.user_id
    /\ reply.outcome = OK
    /\ Voted(reply.user_id, reply.post_id)

MembershipsIn(B, u, c) == CopiesIn([user_id |-> u, club_id |-> c], B)

\* C19: there is at most one membership row per (user, club) pair; the rows of
\* a pair (u, c) grow only by a join of (u, c) that u issued and shrink only by
\* a leave of (u, c) that u issued; a join or leave whose actor is not the row's
\* user changes nothing; and a join of a pair that is already there is refused
\* and changes nothing.
C19_OneMembershipPerUserClub ==
    /\ [](\A u \in Users, c \in Clubs : MembershipsIn(club_memberships, u, c) <= 1)
    /\ [][
         /\ \A u \in Users, c \in Clubs :
               LET before == MembershipsIn(club_memberships, u, c)
                   after == MembershipsIn(club_memberships', u, c)
                   mine == /\ reply' # reply
                           /\ reply'.actor = u
                           /\ reply'.user_id = u
                           /\ reply'.club_id = c
                           /\ reply'.outcome = OK
               IN /\ after > before => (reply'.op = "join" /\ mine)
                  /\ after < before => (reply'.op = "leave" /\ mine)
         /\ (Ends("join") /\ Member(reply'.user_id, reply'.club_id)) =>
               /\ reply'.outcome \in {ConflictError, AuthorizationError}
               /\ reply'.actor = reply'.user_id => reply'.outcome = ConflictError
               /\ UNCHANGED store
         /\ ((Ends("join") \/ Ends("leave")) /\ reply'.actor # reply'.user_id) =>
               /\ UNCHANGED store
               /\ reply'.op = "join" => reply'.outcome = AuthorizationError
       ]_vars

\* A member of a club asked to join it again and was refused; the one
\* membership is still there.
C19_Witness ==
    /\ reply.op = "join"
    /\ reply.actor = reply.user_id
    /\ reply.outcome = ConflictError
    /\ MembershipsIn(club_memberships, reply.user_id, reply.club_id) = 1

\* C20: each user has at most one profile and each username at most one
\* profile; a profile insert of a user's own row that is not aborted ends with
\* ConflictError exactly when a committed profile has its user_id or its
\* username, and with OK otherwise; only an insert that ends with OK adds a
\* profile, and it adds its own row alone.  So of two forms that were both told
\* a username is free and submit it together, one insert succeeds and the other
\* fails with ConflictError and creates nothing.
C20_UniqueProfiles ==
    /\ [](\A u \in Users : BagCardinality(ProfilesOf(u)) <= 1)
    /\ [](\A n \in Usernames : BagCardinality(ProfilesNamed(n)) <= 1)
    /\ [][Ends("profile_insert") =>
            LET r == reply'
                row == [user_id |-> r.user_id, username |-> r.username]
                taken == ProfilesOf(r.user_id) # EmptyBag
                            \/ ProfilesNamed(r.username) # EmptyBag
            IN /\ (r.actor = r.user_id /\ r.outcome # Aborted) =>
                     r.outcome = IF taken THEN ConflictError ELSE OK
               /\ r.outcome = OK => profiles' = profiles (+) SetToBag({row})
               /\ r.outcome # OK => UNCHANGED profiles]_vars

\* Two forms held the same username with no error shown and both submitted it:
\* the profile of one user exists, and the insert of the other, which had
\* passed the policy, has just ended with ConflictError.
C20_Witness ==
    /\ reply.op = "profile_insert"
    /\ reply.caller = "Onboarding"
    /\ reply.pc = "pr_checked"
    /\ reply.outcome = ConflictError
    /\ onboarding[reply.actor].usernameError = ""
    /\ ProfilesOf(reply.actor) = EmptyBag
    /\ \E u \in Users \ {reply.actor} :
          /\ onboarding[u].username = reply.username
          /\ onboarding[u].finish # "idle"
          /\ ProfilesOf(u) = SetToBag({[user_id |-> u, username |-> reply.username]})

(* The feed.  A step renders when it changes mainApp; the memo is then computed
   from the posts given, the search and sort after the step, and now. *)

Renders == mainApp' # mainApp

\* The posts the render is given: those loaded by the step, else those held.
Given ==
    IF mainApp'.search = mainApp.search /\ mainApp'.sort = mainApp.sort
    THEN mainApp'.posts
    ELSE mainApp.posts

\* The position of post x in the sequence ps.
PositionIn(ps, x) == CHOOSE i \in 1..Len(ps) : ps[i] = x

\* out holds exactly the posts of ps that satisfy Keep, each once.
HoldsExactly(out, ps, Keep(_)) ==
    /\ Range(out) = {x \in Range(ps) : Keep(x)}
    /\ \A i, j \in 1..Len(out) : i # j => out[i] # out[j]

\* out is in descending order of Key (compared by AtLeast), posts of equal Key
\* in the order they have in ps.
DescendingStable(out, ps, AtLeast(_, _)) ==
    \A i, j \in 1..Len(out) :
        i < j =>
            /\ AtLeast(out[i], out[j])
            /\ AtLeast(out[j], out[i]) => PositionIn(ps, out[i]) < PositionIn(ps, out[j])

\* Timestamp a is not earlier than b; post a has no lower score than b.
NotEarlier(a, b) ==
    \/ a.created_at.day > b.created_at.day
    \/ a.created_at.day = b.created_at.day /\ a.created_at.ms >= b.created_at.ms

NotLower(a, b) == a.score >= b.score

\* Characters c and d are the same letter in either case, or the same character.
SameIgnoringCase(c, d) ==
    \/ c = d
    \/ \E k \in 1..Len(LowerCase) :
          {c, d} \subseteq {LowerCase[k], UpperCase[k]}

\* Text contains q as a substring, ignoring letter case.
ContainsIgnoringCase(text, q) ==
    \E i \in 0..(Len(text) - Len(q)) :
        \A k \in 1..Len(q) : SameIgnoringCase(text[i + k], q[k])

\* Post p is found by the query q (any post by the empty query).
Found(p, q) ==
    \/ q = <<>>
    \/ ContainsIgnoringCase(p.title, q)
    \/ p.content # <<>> /\ ContainsIgnoringCase(p.content[1], q)

\* The age of post p at the time clock is less than days days.
YoungerThan(p, days, clock) ==
    \/ p.created_at.day + days > clock.d
    \/ p.created_at.day + days = clock.d /\ p.created_at.ms > clock.ms

\* C14: rendered with sort "new", the feed holds every post the query finds
\* (every post of the input when there is no query), in descending order of
\* created_at, posts of equal created_at in their input order; from three
\* posts given oldest first it is the three newest first.
C14_NewOrdersByCreatedAt ==
    [][(Renders /\ mainApp'.sort = "new") =>
          LET Keep(p) == Found(p, mainApp'.search)
          IN /\ HoldsExactly(mainApp'.feed, Given, Keep)
             /\ mainApp'.search = <<>> => Len(mainApp'.feed) = Len(Given)
             /\ DescendingStable(mainApp'.feed, Given, NotEarlier)]_vars

\* Three posts of three different times, held oldest first, are shown newest
\* first.
C14_Witness ==
    /\ mainApp.sort = "new"
    /\ mainApp.search = <<>>
    /\ Len(mainApp.posts) = 3
    /\ \A i \in 1..2 : ~NotEarlier(mainApp.posts[i], mainApp.posts[i + 1])
    /\ mainApp.feed = <<mainApp.posts[3], mainApp.posts[2], mainApp.posts[1]>>

\* C15: rendered with a sort "top-..", the feed holds exactly the posts the
\* query finds whose age at the time of the render is less than the window (90,
\* 180, 365 days; every post for "top-all"), in descending order of score,
\* posts of equal score in their input order.
C15_TopFiltersWindowOrdersByScore ==
    [][(Renders /\ mainApp'.sort # "new") =>
          LET days == IF mainApp'.sort = "top-3m" THEN 90
                      ELSE IF mainApp'.sort = "top-6m" THEN 180
                      ELSE 365
              Keep(p) == /\ Found(p, mainApp'.search)
                         /\ mainApp'.sort = "top-all" \/ YoungerThan(p, days, now)
          IN /\ HoldsExactly(mainApp'.feed, Given, Keep)
             /\ DescendingStable(mainApp'.feed, Given, NotLower)]_vars

\* With the 90 day window, the post that is exactly 90 days old is left out,
\* and of the two posts 1 ms younger the one of higher score, held second,
\* comes first.
C15_Witness ==
    /\ mainApp.sort = "top-3m"
    /\ mainApp.search = <<>>
    /\ now = Clock[1]
    /\ Len(mainApp.posts) = 3
    /\ mainApp.posts[1].created_at = [day |-> Clock[1].d - 90, ms |-> Clock[1].ms]
    /\ mainApp.posts[2].score < mainApp.posts[3].score
    /\ mainApp.feed = <<mainApp.posts[3], mainApp.posts[2]>>

\* C16: rendered with a query, the feed is the feed of the posts whose title
\* or non-null content contains the query ignoring letter case, rendered
\* without a query (the query filters first); it is empty when no post
\* contains the query; and the empty query leaves no post out of what the
\* sort shows.
C16_SearchFiltersFirst ==
    [][Renders =>
          LET q == mainApp'.search
              IsFound(p) == Found(p, q)
              found == SelectSeq(Given, IsFound)
          IN /\ mainApp'.feed = filteredPosts(found, <<>>, mainApp'.sort, now).result
             /\ \A p \in Range(mainApp'.feed) : Found(p, q)
             /\ (\A p \in Range(Given) : ~Found(p, q)) => mainApp'.feed = <<>>
             /\ q = <<>> => found = Given]_vars

\* The query "gO" finds the post titled "Go" and the post whose content is
\* "agO", and not the third post held.
C16_Witness ==
    /\ mainApp.search = <<"g", "O">>
    /\ mainApp.sort = "new"
    /\ Len(mainApp.posts) = 3
    /\ Len(mainApp.feed) = 2
    /\ \E p \in Range(mainApp.feed) : p.title = <<"G", "o">>
    /\ \E p \in Range(mainApp.feed) : p.content = << <<"a", "g", "O">> >>

\* C17: a render leaves the posts it was given as they were, in order and in
\* every field, and the feed is what a second call with the same posts, search,
\* sort and time returns.
C17_RankIsPure ==
    [][(Renders /\ (mainApp'.search # mainApp.search \/ mainApp'.sort # mainApp.sort)) =>
          /\ mainApp'.posts = mainApp.posts
          /\ mainApp'.feed =
                filteredPosts(mainApp.posts, mainApp'.search, mainApp'.sort, now).result]_vars

\* Posts held in another order than the feed shows them, after a change of
\* the sort.
C17_Witness ==
    /\ mainApp.sort = "top-all"
    /\ mainApp.search = <<>>
    /\ Len(mainApp.posts) = 3
    /\ mainApp.feed # mainApp.posts
    /\ Len(mainApp.feed) = 3

\* The posts ps with the created_at values assigned in reverse: the post that
\* out shows at place i receives the created_at of the post at place i from
\* the end.
ReversedTimes(ps, out) ==
    [k \in 1..Len(ps) |->
        [ps[k] EXCEPT !.created_at =
            out[Len(out) + 1 - PositionIn(out, ps[k])].created_at]]

Ids(ps) == [k \in 1..Len(ps) |-> ps[k].id]

Reverse(ps) == [k \in 1..Len(ps) |-> ps[Len(ps) + 1 - k]]

Returns(c) == BagIn(c, mainApp.calls) /\ AwaitedByCall(c)

\* The votes of AuthUser on post p in the store.
OwnVotes(p) == RowsOf(post_votes, AuthUser, p)

\* The errors the store rejects a statement with.
Rejections == {AuthorizationError, ConflictError, ValidationError, NotFoundError}

\* C12: a mutation the store rejected is surfaced to its caller: when the
\* delete or the insert that a call of handleVote awaits ended with an error,
\* the step that takes the reply leaves the local votes and scores as they
\* were.
C12_FailedVoteLeavesLocalState ==
    [][\A c \in BagToSet(mainApp.calls) :
          (Returns(c) /\ reply.outcome \in Rejections /\ reply' = NoReply)
             => /\ mainApp'.votes = mainApp.votes
                /\ mainApp'.posts = mainApp.posts]_vars

\* A re-vote of the opposite value whose insert the store accepted.
Revoted(c) ==
    /\ Returns(c)
    /\ c.await = "insert"
    /\ c.existing # <<>>
    /\ reply.outcome = OK

\* A vote of the value already held whose delete the store accepted.
Unvoted(c) ==
    /\ Returns(c)
    /\ c.await = "delete"
    /\ c.existing[1].vote_value = c.value
    /\ reply.outcome = OK

\* C13: re-voting never updates a vote row in place: no step changes the value
\* of a vote that stays, and an UPDATE changes no vote; handleVote on a vote it
\* holds sends the insert after the delete only for the opposite value; when
\* that insert is accepted the store holds exactly one vote of the user on the
\* post, of the new value; when the delete of a vote of the same value is
\* accepted the store holds no vote of the user on the post; and the score is
\* the sum of the votes throughout, so that it moved by twice the new value,
\* or back to the sum of the others' votes.
C13_RevoteIsDeleteThenInsert ==
    /\ [](\A c \in BagToSet(mainApp.calls) :
            /\ (c.existing # <<>> /\ c.await \in {"send", "insert"})
                  => c.existing[1].vote_value = 0 - c.value
            /\ Revoted(c) =>
                  OwnVotes(c.postId) = SetToBag({[user_id |-> AuthUser,
                                                   post_id |-> c.postId,
                                                   vote_value |-> c.value]})
            /\ Unvoted(c) => OwnVotes(c.postId) = EmptyBag)
    /\ [](\A p \in 1..Len(posts) : posts[p].score = VoteSum(post_votes, p))
    /\ [][\A u \in Users, p \in PostIds :
             \/ RowsOf(post_votes', u, p) = RowsOf(post_votes, u, p)
             \/ RowsOf(post_votes', u, p) = EmptyBag
             \/ RowsOf(post_votes, u, p) = EmptyBag]_vars
    /\ [][(reply'.op = "vote_update" /\ reply = NoReply)
             => post_votes' = post_votes]_vars

\* A re-vote of the opposite value returned with its insert accepted, the
\* post's only vote.
C13_Witness ==
    \E c \in BagToSet(mainApp.calls) :
        /\ Revoted(c)
        /\ c.existing[1].vote_value = 0 - c.value
        /\ posts[c.postId].score = c.value

\* A vote of the value already held returned removed.
C13_WitnessUnvoted ==
    \E c \in BagToSet(mainApp.calls) : Unvoted(c) /\ posts[c.postId].score = 0

(* C21: interleaved calls of handleVote *)

\* Every call of handleVote has returned.
AllCallsReturned == mainApp.calls = EmptyBag

\* The local list votes as the set of its entries, and the votes of AuthUser
\* in the store in the same shape.
LocalVotes == Range(mainApp.votes)

StoredVotes ==
    {[post_id |-> r.post_id, vote_value |-> r.vote_value] :
        r \in {v \in BagToSet(post_votes) : v.user_id = AuthUser}}

\* C21: once all calls of handleVote by the one user have returned, the local
\* list votes holds at most one entry per post and equals the user's votes in
\* the store, and each post's displayed score moved as its stored score did
\* (both started equal, and nobody else votes).
C21_LocalMatchesStoreWhenQuiet ==
    AllCallsReturned =>
        /\ \A i, j \in 1..Len(mainApp.votes) :
              mainApp.votes[i].post_id = mainApp.votes[j].post_id => i = j
        /\ LocalVotes = StoredVotes
        /\ \A p \in Range(mainApp.posts) : p.score = posts[p.id].score

(* C22: the username step *)

\* The Continue button of the username step would be enabled with the state o
\* of the form.
UsernameStepEnabled(o) == ButtonEnabled([o EXCEPT !.step = 0])

\* The step is the return of an availability check of user u issued for value.
CheckReturned(u, value) ==
    /\ BagIn(value, onboarding[u].checks)
    /\ onboarding'[u].checks = onboarding[u].checks (-) SetToBag({value})

\* C22: the Continue button of the username step is enabled only when the
\* username in the input has at least 3 characters and matches [a-zA-Z0-9_]+,
\* and it becomes enabled only by the return of an availability check issued
\* for exactly that username which found no profile of that name, in whatever
\* order the responses of overlapping checks arrive.
C22_ContinueOnlyForCheckedUsername ==
    /\ [](\A u \in Users :
            UsernameStepEnabled(onboarding[u])
               => /\ Len(onboarding[u].username) >= 3
                  /\ UsernamePattern(onboarding[u].username))
    /\ [][\A u \in Users :
            (~UsernameStepEnabled(onboarding[u]) /\ UsernameStepEnabled(onboarding'[u]))
               => CheckReturned(u, onboarding'[u].username)]_vars

(* C23: ProtectedRoute *)

\* C23: ProtectedRoute renders its children exactly when loading is false, a
\* user is present and a profile is present; while loading it renders neither
\* children nor a redirect; with no user it redirects to /login, whether or
\* not a profile is present; with a user and no profile it redirects to
\* /onboarding.
C23_ChildrenOnlyForUserWithProfile ==
    LET shown == route.rendered
    IN /\ shown.element = "children"
            <=> (~route.loading /\ route.user # <<>> /\ route.profile # <<>>)
       /\ route.loading => shown.element \notin {"children", "Navigate"}
       /\ (~route.loading /\ route.user = <<>>)
            => shown = [element |-> "Navigate", to |-> "/login"]
       /\ (~route.loading /\ route.user # <<>> /\ route.profile = <<>>)
            => shown = [element |-> "Navigate", to |-> "/onboarding"]

\* ProtectedRoute rendered a redirect to /login with a profile present and no
\* user.
C23_Witness ==
    /\ ~route.loading
    /\ route.user = <<>>
    /\ route.profile # <<>>
    /\ route.rendered = [element |-> "Navigate", to |-> "/login"]

(* C24: handleFinish *)

\* handleFinish of user u takes the result of its profile insert, an error.
ProfileInsertFailed(u) ==
    /\ onboarding[u].finish = "profile"
    /\ onboarding'[u].finish # "profile"
    /\ reply.outcome # OK

\* C24: when the profile insert of handleFinish fails, the call ends there:
\* it sends no membership insert (no statement starts, the store is as it
\* was), the profile is not refreshed and there is no navigation to /app; and
\* handleFinish asks for the clubs, refreshes the profile and navigates only
\* after its profile insert was accepted; and submitting, set when handleFinish
\* starts, is false again whenever no handleFinish is running: after a
\* success, after a profile error and after a caught exception.
C24_FailedProfileStopsFinish ==
    /\ [][\A u \in Users :
            /\ ProfileInsertFailed(u)
                 => /\ onboarding'[u].finish = "idle"
                    /\ onboarding'[u].refreshed = onboarding[u].refreshed
                    /\ onboarding'[u].path = onboarding[u].path
                    /\ onboarding'[u].toast = "error"
                    /\ ~onboarding'[u].submitting
                    /\ UNCHANGED <<store, txns, profiles>>
            /\ (onboarding[u].finish = "profile" /\ onboarding'[u].finish = "clubs")
                 => (reply.op = "profile_insert" /\ reply.user_id = u /\ reply.outcome = OK)
            /\ (onboarding'[u].refreshed # onboarding[u].refreshed
                   \/ onboarding'[u].path # onboarding[u].path
                   \/ (onboarding'[u].finish = "memberships"
                          /\ onboarding[u].finish # "memberships"))
                 => onboarding[u].finish \in {"clubs", "memberships"}]_vars
    /\ [](\A u \in Users :
            /\ onboarding[u].finish = "clubs" => ProfilesOf(u) # EmptyBag
            /\ onboarding[u].submitting <=> onboarding[u].finish # "idle")

\* A handleFinish whose profile insert the store rejected has ended: the error
\* is shown, submitting is false, the user is still on /onboarding with no
\* membership and no refreshed profile.
C24_Witness ==
    \E u \in Users :
        /\ onboarding[u].toast = "error"
        /\ onboarding[u].finish = "idle"
        /\ ~onboarding[u].submitting
        /\ ~onboarding[u].refreshed
        /\ onboarding[u].path = "/onboarding"
        /\ ProfilesOf(u) = EmptyBag
        /\ \A c \in Clubs : ~is_club_member(u, c)
        /\ reply = NoReply

====
